---- MODULE Spec2Model ----
(***************************************************************************)
(* Dispatch core of the disaster-response agents:                          *)
(*   - the inventory ledger    (modules/resource_tools/inventory.py)       *)
(*   - the allocation engine   (modules/resource_tools/allocator.py)       *)
(*   - the priority queue      (src/main_orchestrator/services/            *)
(*                              priority_queue_service.py) and the tools   *)
(*                              that call it                               *)
(*   - the rescue teams        (src/rescue_agent/team_tools.py)            *)
(* Each component has its own specification over the shared variables:     *)
(*   Spec       sequential calls of the ledger and of one mission of the   *)
(*              allocation engine, each call recorded                      *)
(*   SpecFleet  the same calls for every mission                           *)
(*   SpecRace   two threads inside reserve_items                           *)
(*   SpecQueue  one asyncio task inside the queue service, suspended only  *)
(*              at load_queue / save_queue                                 *)
(*   SpecTasks  two such tasks interleaved, a bounded number of calls      *)
(*   SpecTeams  calls of the team tools, each call recorded                *)
(*   SpecDispatch  the allocation engine beside the team tools             *)
(*   SpecRoster sequential allocations of one mission, through a whole     *)
(*              round of the team names                                    *)
(*   SpecStatus the status tools of queue and teams, one call at a time    *)
(*   SpecStock  get_item_status for every stock level and threshold        *)
(*   SpecUnique allocations under mission ids not in use, and releases     *)
(*   SpecInterleave  one allocate_resources call step by step beside       *)
(*              complete calls of the ledger                               *)
(*   SpecSubmit reports submitted by two tasks at once                     *)
(*   SpecListing  the queue filled, changed and listed by one task         *)
(*   SpecRemove victims added, updated and removed by one task             *)
(*   SpecAssign teams assigned to either case and given back               *)
(***************************************************************************)
EXTENDS Integers, Sequences, FiniteSets, TLC

VARIABLES
    inventory,           \* inventory.py _inventory: item -> total/reserved/threshold
    active_allocations,  \* allocator.py _active_allocations: mission_id -> record
    next_team_index,     \* allocator.py _next_team_index
    last,                \* history: the last completed ledger/allocator call
    recording,           \* history: whether calls are recorded in `last`
    callers,             \* threads inside reserve_items: position and locals
    queue_cache,         \* PriorityQueueService.queue_cache
    storage,             \* content of the artifact disaster_priority_queue.json
    now,                 \* the clock read by datetime.now
    tasks,               \* asyncio tasks inside the queue service
    event,               \* history: the last step of a queue operation
    arrivals,            \* history: victim ids in the order of first submission
    journal,             \* history: calls begun and the states the queue has had
    teams,               \* team_tools.py _teams: team_id -> status/assignment/location
    team_calls           \* history: number of team-tool calls made

ledgerVars == <<inventory, active_allocations, next_team_index, last, recording>>

raceVars == <<callers>>

queueVars == <<queue_cache, storage, now, tasks, event, arrivals, journal>>

teamVars == <<teams, team_calls>>

vars == <<ledgerVars, raceVars, queueVars, teamVars>>

-----------------------------------------------------------------------------
(* Bounds of the model *)

\* largest quantity a caller asks for
MaxQty == 2
\* calls are explored while every reserved count stays within
\* -ReservedSlack .. total + ReservedSlack
ReservedSlack == 1
\* number of auto-assigned team ids explored beside other calls
MaxAutoTeams == 2
\* number of auto-assigned team ids explored in all
MaxRoster == 7

\* quantities callers pass: nothing validates them, so a negative one too
Quantities == {-1} \cup (0 .. MaxQty)

-----------------------------------------------------------------------------
(* inventory.py *)

\* one of the twenty items of INITIAL_INVENTORY, with its source values (the
\* code treats every item alike and no call reads two items at once)
INITIAL_INVENTORY ==
    [i \in {"airbag_lifter"} |-> [total |-> 2, reserved |-> 0, threshold |-> 1]]

KnownItems == DOMAIN INITIAL_INVENTORY

\* names callers pass: the known item, another spelling of it, an unknown one
ItemNames == KnownItems \cup {"AIRBAG_LIFTER", "invalid_item"}

\* names in equipment lists
RequestNames == KnownItems \cup {"invalid_item"}

\* str.lower() on the names of the model
Lower(name) == IF name = "AIRBAG_LIFTER" THEN "airbag_lifter" ELSE name

Min(a, b) == IF a <= b THEN a ELSE b

\* the status with the half of the threshold rounded up
StatusHalfUp(item_data) ==
    LET available == item_data.total - item_data.reserved
        threshold == item_data.threshold
    IN  IF available <= 0 THEN "out"
        ELSE IF available <= (threshold + 1) \div 2 THEN "critical"
        ELSE IF available <= threshold THEN "low"
        ELSE "ok"

calculate_item_status(item_data) ==
    LET available == item_data.total - item_data.reserved
        threshold == item_data.threshold
    IN  IF available <= 0 THEN "out"
        ELSE IF available <= threshold \div 2 THEN "critical"
        ELSE IF available <= threshold THEN "low"
        ELSE "ok"

\* get_item_status as a function of the ledger
get_item_status(inv, name) ==
    LET item_name == Lower(name)
    IN  IF item_name \notin DOMAIN inv
        THEN [error |-> TRUE]
        ELSE [error     |-> FALSE,
              available |-> inv[item_name].total - inv[item_name].reserved,
              total     |-> inv[item_name].total,
              reserved  |-> inv[item_name].reserved,
              threshold |-> inv[item_name].threshold,
              status    |-> calculate_item_status(inv[item_name])]

\* reserve_items with the request compared to the total stock
ReserveAgainstTotal(inv, name, quantity) ==
    LET item_name == Lower(name)
    IN  IF item_name \notin DOMAIN inv
        THEN [inv |-> inv, ret |-> [success |-> FALSE, error |-> "not_found"]]
        ELSE LET item_data == inv[item_name]
                 available == item_data.total - item_data.reserved
             IN  IF quantity > item_data.total
                 THEN [inv |-> inv,
                       ret |-> [success |-> FALSE, error |-> "insufficient_stock",
                                available |-> available]]
                 ELSE LET new == [inv EXCEPT ![item_name].reserved = @ + quantity]
                      IN  [inv |-> new,
                           ret |-> [success |-> TRUE, reserved |-> quantity,
                                    available_after |->
                                        new[item_name].total - new[item_name].reserved]]

\* reserve_items as a function of the ledger: the new ledger and the result
Reserve(inv, name, quantity) ==
    LET item_name == Lower(name)
    IN  IF item_name \notin DOMAIN inv
        THEN [inv |-> inv, ret |-> [success |-> FALSE, error |-> "not_found"]]
        ELSE LET item_data == inv[item_name]
                 available == item_data.total - item_data.reserved
             IN  IF quantity > available
                 THEN [inv |-> inv,
                       ret |-> [success |-> FALSE, error |-> "insufficient_stock",
                                available |-> available]]
                 ELSE LET new == [inv EXCEPT ![item_name].reserved = @ + quantity]
                      IN  [inv |-> new,
                           ret |-> [success |-> TRUE, reserved |-> quantity,
                                    available_after |->
                                        new[item_name].total - new[item_name].reserved]]

\* release_items with the quantity taken as asked
ReleaseAsAsked(inv, name, quantity) ==
    LET item_name == Lower(name)
    IN  IF item_name \notin DOMAIN inv
        THEN [inv |-> inv, ret |-> [success |-> FALSE, error |-> "not_found"]]
        ELSE LET item_data == inv[item_name]
                 actual_release == quantity
                 new == [inv EXCEPT ![item_name].reserved = @ - actual_release]
             IN  [inv |-> new,
                  ret |-> [success |-> TRUE, released |-> actual_release,
                           available_after |->
                               new[item_name].total - new[item_name].reserved]]

\* release_items as a function of the ledger
Release(inv, name, quantity) ==
    LET item_name == Lower(name)
    IN  IF item_name \notin DOMAIN inv
        THEN [inv |-> inv, ret |-> [success |-> FALSE, error |-> "not_found"]]
        ELSE LET item_data == inv[item_name]
                 actual_release == Min(quantity, item_data.reserved)
                 new == [inv EXCEPT ![item_name].reserved = @ - actual_release]
             IN  [inv |-> new,
                  ret |-> [success |-> TRUE, released |-> actual_release,
                           available_after |->
                               new[item_name].total - new[item_name].reserved]]

-----------------------------------------------------------------------------
(* allocator.py *)

TEAM_NAMES == <<"Alpha", "Bravo", "Charlie", "Delta", "Echo", "Foxtrot">>

\* the name read after the index has been advanced
get_team_id_after(index) == "T-" \o TEAM_NAMES[((index + 1) % Len(TEAM_NAMES)) + 1]

\* _get_next_team_id: the id it returns for a value of _next_team_index
get_next_team_id(index) == "T-" \o TEAM_NAMES[(index % Len(TEAM_NAMES)) + 1]

Missions == {"M-1", "M-2"}

\* an equipment request {"item", "quantity"} (priority is read and never used)
Requests == [item : RequestNames, quantity : Quantities]

\* request lists hold up to one entry per name
MaxRequests == Cardinality(RequestNames)

EquipmentLists == UNION {[1..n -> Requests] : n \in 0..MaxRequests}

Break(rest) == <<>>

\* `continue` after an item that is not in the inventory
Continue(rest) == rest

\* the loop of allocate_resources over equipment_list, in order
RECURSIVE AllocLoop(_, _, _, _)
AllocLoop(inv, equipment_list, equipment_assigned, shortfall) ==
    IF equipment_list = <<>>
    THEN [inv |-> inv, equipment_assigned |-> equipment_assigned,
          shortfall |-> shortfall]
    ELSE
      LET item_name     == Lower(Head(equipment_list).item)
          requested_qty == Head(equipment_list).quantity
          rest          == Tail(equipment_list)
          status        == get_item_status(inv, item_name)
      IN
        IF status.error
        THEN AllocLoop(inv, Continue(rest), equipment_assigned,
                 Append(shortfall, [item |-> item_name, quantity |-> requested_qty,
                                    reason |-> "item_not_found"]))
        ELSE
          LET available == status.available IN
          IF available >= requested_qty
          THEN LET result == Reserve(inv, item_name, requested_qty)
               IN  AllocLoop(result.inv, rest,
                       IF result.ret.success
                       THEN Append(equipment_assigned,
                                [item |-> item_name, quantity |-> requested_qty])
                       ELSE equipment_assigned,
                       shortfall)
          ELSE IF available > 0
          THEN LET result == Reserve(inv, item_name, available)
               IN  AllocLoop(result.inv, rest,
                       IF result.ret.success
                       THEN Append(equipment_assigned,
                                [item |-> item_name, quantity |-> available])
                       ELSE equipment_assigned,
                       Append(shortfall,
                           [item |-> item_name, quantity |-> requested_qty - available,
                            reason |-> "insufficient_stock"]))
          ELSE AllocLoop(inv, rest, equipment_assigned,
                   Append(shortfall, [item |-> item_name, quantity |-> requested_qty,
                                      reason |-> "out_of_stock"]))

\* the loop of release_resources over the record's equipment_assigned
RECURSIVE ReleaseLoop(_, _, _)
ReleaseLoop(inv, equipment_assigned, items_returned) ==
    IF equipment_assigned = <<>>
    THEN [inv |-> inv, items_returned |-> items_returned]
    ELSE
      LET item_name == Head(equipment_assigned).item
          quantity  == Head(equipment_assigned).quantity
          result    == Release(inv, item_name, quantity)
      IN  ReleaseLoop(result.inv, Tail(equipment_assigned),
              IF result.ret.success
              THEN Append(items_returned,
                       [item |-> item_name, quantity |-> result.ret.released])
              ELSE items_returned)

-----------------------------------------------------------------------------
(* History kept for the properties *)

NoLast == [op |-> "none"]

Record(call) == IF recording THEN call ELSE NoLast

ReservedOf(inv) == [i \in DOMAIN inv |-> inv[i].reserved]

RECURSIVE SumQty(_, _)
SumQty(entries, i) ==
    IF entries = <<>> THEN 0
    ELSE (IF Head(entries).item = i THEN Head(entries).quantity ELSE 0)
         + SumQty(Tail(entries), i)

\* the known items a list of requests names
ItemsOf(list) == {Lower(list[k].item) : k \in DOMAIN list} \cap KnownItems

\* explored part of the ledger (reserved is an unbounded Python int)
Explored(inv) ==
    \A i \in DOMAIN inv :
        /\ inv[i].reserved >= 0 - ReservedSlack
        /\ inv[i].reserved <= inv[i].total + ReservedSlack

-----------------------------------------------------------------------------
(* Operations, each one complete call *)

reserve_items(item_name, quantity) ==
    \E result \in {Reserve(inventory, item_name, quantity)} :
        /\ Explored(result.inv)
        /\ inventory' = result.inv
        /\ last' = Record([op |-> "reserve_items", item |-> Lower(item_name),
                           quantity |-> quantity, pre |-> ReservedOf(inventory),
                           ret |-> result.ret])
        /\ UNCHANGED <<active_allocations, next_team_index, recording>>
        /\ UNCHANGED <<raceVars, queueVars, teamVars>>

release_items(item_name, quantity) ==
    \E result \in {Release(inventory, item_name, quantity)} :
        /\ Explored(result.inv)
        /\ inventory' = result.inv
        /\ last' = Record([op |-> "release_items", item |-> Lower(item_name),
                           quantity |-> quantity, pre |-> ReservedOf(inventory),
                           ret |-> result.ret])
        /\ UNCHANGED <<active_allocations, next_team_index, recording>>
        /\ UNCHANGED <<raceVars, queueVars, teamVars>>

\* a record kept only when something was assigned
StoredIfAssigned(records, mission_id, allocation_record) ==
    IF allocation_record.equipment_assigned = <<>> THEN records
    ELSE [m \in DOMAIN records \cup {mission_id} |->
             IF m = mission_id THEN allocation_record ELSE records[m]]

\* _active_allocations[mission_id] = allocation_record
Stored(records, mission_id, allocation_record) ==
    [m \in DOMAIN records \cup {mission_id} |->
        IF m = mission_id THEN allocation_record ELSE records[m]]

\* team_id = "None" stands for the omitted argument
allocate_resources(mission_id, equipment_list, team_id) ==
    \E loop \in {AllocLoop(inventory, equipment_list, <<>>, <<>>)} :
      LET auto     == team_id = "None"
          assigned == IF auto THEN get_next_team_id(next_team_index) ELSE team_id
          allocated == Len(loop.equipment_assigned) > 0
          allocation_record ==
              [mission_id |-> mission_id, team_id |-> assigned,
               equipment_assigned |-> loop.equipment_assigned]
      IN  /\ auto => next_team_index < MaxRoster
          /\ Explored(loop.inv)
          /\ next_team_index' = IF auto THEN next_team_index + 1 ELSE next_team_index
          /\ inventory' = loop.inv
          /\ active_allocations' =
                 Stored(active_allocations, mission_id, allocation_record)
          /\ last' = Record(
                 [op |-> "allocate_resources", mission |-> mission_id,
                  team_id |-> team_id, index |-> next_team_index,
                  overwrote |-> mission_id \in DOMAIN active_allocations,
                  request |-> equipment_list,
                  pre |-> ReservedOf(inventory),
                  ret |-> [allocated |-> allocated, team_id |-> assigned,
                           equipment_assigned |-> loop.equipment_assigned,
                           shortfall |-> loop.shortfall]])
          /\ UNCHANGED recording
          /\ UNCHANGED <<raceVars, queueVars, teamVars>>

Kept(records, mission_id) == records

\* del _active_allocations[mission_id]
Deleted(records, mission_id) ==
    [m \in DOMAIN records \ {mission_id} |-> records[m]]

\* `after` is the allocate_resources call of the same mission that this call
\* follows with no other call in between, if there is one, `previous` the
\* release_resources call of the mission that a call finding no record
\* follows; `records` is _active_allocations as the call found it
release_resources(mission_id) ==
    IF mission_id \notin DOMAIN active_allocations
    THEN /\ last' = Record(
                [op |-> "release_resources", mission |-> mission_id,
                 after |-> NoLast,
                 previous |-> IF last.op = "release_resources"
                                 /\ last.mission = mission_id
                              THEN [op |-> last.op, ret |-> last.ret]
                              ELSE NoLast,
                 pre |-> ReservedOf(inventory), records |-> active_allocations,
                 ret |-> [released |-> FALSE, items_returned |-> <<>>]])
         /\ UNCHANGED <<inventory, active_allocations, next_team_index, recording>>
         /\ UNCHANGED <<raceVars, queueVars, teamVars>>
    ELSE
      \E loop \in {ReleaseLoop(inventory,
                       active_allocations[mission_id].equipment_assigned, <<>>)} :
          /\ Explored(loop.inv)
          /\ inventory' = loop.inv
          /\ active_allocations' = Deleted(active_allocations, mission_id)
          /\ last' = Record(
                 [op |-> "release_resources", mission |-> mission_id,
                  after |-> IF last.op = "allocate_resources"
                               /\ last.mission = mission_id
                            THEN last ELSE NoLast,
                  pre |-> ReservedOf(inventory), records |-> active_allocations,
                  ret |-> [released |-> TRUE,
                           items_returned |-> loop.items_returned]])
          /\ UNCHANGED <<next_team_index, recording>>
          /\ UNCHANGED <<raceVars, queueVars, teamVars>>

-----------------------------------------------------------------------------
(* The other components as constructed *)

\* threads that call reserve_items
Callers == {"caller_1", "caller_2"}

NotCalling == [pc |-> "idle"]

InitRace == callers = [c \in Callers |-> NotCalling]

\* asyncio tasks that call the queue service
Tasks == {"task_1", "task_2"}

Idle == [pc |-> "idle"]

\* no artifact has been saved yet
NoArtifact == [exists |-> FALSE]

NoEvent == [kind |-> "none"]

\* no call begun, and the empty queue the only state the queue has had
NoJournal == [calls |-> 0, previous |-> <<>>, states |-> {<<>>}]

\* PriorityQueueService.__init__ and the world around it
InitQueue ==
    /\ queue_cache = <<>>
    /\ storage = NoArtifact
    /\ now = 0
    /\ tasks = [t \in Tasks |-> Idle]
    /\ event = NoEvent
    /\ arrivals = <<>>
    /\ journal = NoJournal

\* Python's None and a present value
None == <<>>

Some(x) == <<x>>

\* team_tools.py _teams, in the insertion order of the dict
TeamOrder == <<"T-Alpha", "T-Bravo", "T-Charlie", "T-Delta">>

TeamIds == {TeamOrder[k] : k \in DOMAIN TeamOrder}

\* the "equipment" list of each team
Equipment ==
    [t \in TeamIds |->
        CASE t = "T-Alpha" ->
                 {"hydraulic_cutter", "airbag_lifter", "stretcher", "first_aid_kit"}
          [] t = "T-Bravo" ->
                 {"defibrillator", "oxygen_tank", "stretcher", "first_aid_kit", "iv_kit"}
          [] t = "T-Charlie" ->
                 {"life_vest", "rescue_boat", "rope", "thermal_blanket", "first_aid_kit"}
          [] t = "T-Delta" ->
                 {"fire_extinguisher", "breathing_apparatus", "thermal_camera", "hose"}]

\* the "location" each team starts at:
\*   base_alpha (13.7400, 100.5200)   base_bravo (13.7350, 100.5150)
\*   base_charlie (13.7450, 100.5250) base_delta (13.7500, 100.5100)
Base ==
    [t \in TeamIds |->
        CASE t = "T-Alpha" -> "base_alpha"
          [] t = "T-Bravo" -> "base_bravo"
          [] t = "T-Charlie" -> "base_charlie"
          [] t = "T-Delta" -> "base_delta"]

\* places a victim is at and a team moves to:
\*   site_1 (13.7425, 100.5225)   site_2 (13.7563, 100.5018)
Sites == {"site_1", "site_2"}

Places == {Base[t] : t \in TeamIds} \cup Sites

INITIAL_TEAMS ==
    [t \in TeamIds |->
        [status |-> "available", location |-> Base[t],
         assigned_to |-> None, eta_minutes |-> None]]

InitTeams ==
    /\ teams = INITIAL_TEAMS
    /\ team_calls = 0

-----------------------------------------------------------------------------
(* Specifications of the ledger and the allocation engine *)

InitLedger ==
    /\ inventory = INITIAL_INVENTORY
    /\ active_allocations = <<>>
    /\ next_team_index = 0
    /\ last = NoLast

\* Spec: every call of one mission and of the ledger, recorded in `last`
Init ==
    /\ InitLedger
    /\ recording = TRUE
    /\ InitRace
    /\ InitQueue
    /\ InitTeams

Next ==
    \/ \E i \in ItemNames, q \in Quantities : reserve_items(i, q)
    \/ \E i \in ItemNames, q \in Quantities : release_items(i, q)
    \/ \E l \in EquipmentLists : allocate_resources("M-1", l, "T-Special")
    \/ release_resources("M-1")

Spec == Init /\ [][Next]_vars

\* SpecUnique: the ledger changed through allocate_resources and
\* release_resources only, quantities from 0 up, no mission allocated again
\* while its record is active
InitUnique ==
    /\ InitLedger
    /\ recording = TRUE
    /\ InitRace
    /\ InitQueue
    /\ InitTeams

\* request lists without negative quantities
CountedLists == {l \in EquipmentLists : \A k \in DOMAIN l : l[k].quantity >= 0}

NextUnique ==
    \/ \E m \in Missions, l \in CountedLists :
           /\ m \notin DOMAIN active_allocations
           /\ allocate_resources(m, l, "T-Special")
    \/ \E m \in Missions : release_resources(m)

SpecUnique == InitUnique /\ [][NextUnique]_vars

\* SpecStock: the status of one item read for every stock level and threshold
MaxTotal == 6
MaxThreshold == 5

\* a caller of get_item_status
read_item_status(name) ==
    /\ last' = [op |-> "get_item_status", item |-> name, pre |-> inventory,
                ret |-> get_item_status(inventory, name)]
    /\ UNCHANGED <<inventory, active_allocations, next_team_index, recording>>
    /\ UNCHANGED <<raceVars, queueVars, teamVars>>

InitStock ==
    /\ \E total \in 0..MaxTotal, threshold \in 0..MaxThreshold :
           \E reserved \in 0..total :
               inventory = [airbag_lifter |->
                   [total |-> total, reserved |-> reserved, threshold |-> threshold]]
    /\ active_allocations = <<>>
    /\ next_team_index = 0
    /\ last = NoLast
    /\ recording = TRUE
    /\ InitRace
    /\ InitQueue
    /\ InitTeams

NextStock ==
    \/ \E i \in ItemNames : read_item_status(i)
    \/ \E i \in ItemNames : reserve_items(i, 1)
    \/ \E i \in ItemNames : release_items(i, 1)

SpecStock == InitStock /\ [][NextStock]_vars

\* SpecFleet: the same calls for every mission, with a team id given or left
\* to _get_next_team_id, unrecorded
InitFleet ==
    /\ InitLedger
    /\ recording = FALSE
    /\ InitRace
    /\ InitQueue
    /\ InitTeams

\* the calls without a team id that a specification follows
AutoWithin(team_id, bound) == team_id = "None" => next_team_index < bound

NextFleet ==
    \/ \E i \in ItemNames, q \in Quantities : reserve_items(i, q)
    \/ \E i \in ItemNames, q \in Quantities : release_items(i, q)
    \/ \E m \in Missions, l \in EquipmentLists, team \in {"None", "T-Special"} :
           /\ AutoWithin(team, MaxAutoTeams)
           /\ allocate_resources(m, l, team)
    \/ \E m \in Missions : release_resources(m)

SpecFleet == InitFleet /\ [][NextFleet]_vars

\* SpecRoster: the calls of one mission with a team id given or left to
\* _get_next_team_id, recorded in `last`
InitRoster ==
    /\ InitLedger
    /\ recording = TRUE
    /\ InitRace
    /\ InitQueue
    /\ InitTeams

NextRoster ==
    \/ \E l \in EquipmentLists, team \in {"None", "T-Echo"} :
           allocate_resources("M-1", l, team)
    \/ release_resources("M-1")

SpecRoster == InitRoster /\ [][NextRoster]_vars

-----------------------------------------------------------------------------
(* Properties of the ledger and the allocation engine *)

Available(i) == get_item_status(inventory, i).available

\* the ledger as it was before the last call
PreInventory(call) ==
    [i \in DOMAIN inventory |-> [inventory[i] EXCEPT !.reserved = call.pre[i]]]

\* C1: in every reachable state every inventory item has 0 <= reserved <= total
\* and the reported available equals total - reserved (so available >= 0).
C1_ReservedWithinTotal ==
    \A i \in KnownItems :
        /\ inventory[i].reserved >= 0
        /\ inventory[i].reserved <= inventory[i].total
        /\ Available(i) = inventory[i].total - inventory[i].reserved
        /\ Available(i) >= 0

\* C3: allocate_resources for a mission without an active record, directly
\* followed by release_resources of that mission, restores the available count
\* of every item named in the request.
C3_RoundTripRestores ==
    (/\ last.op = "release_resources"
     /\ last.after # NoLast
     /\ ~last.after.overwrote)
    => \A i \in ItemsOf(last.after.request) :
           Available(i) = inventory[i].total - last.after.pre[i]

\* the loop of allocate_resources after the first k entries of a request
LoopAfter(call, k) ==
    AllocLoop(PreInventory(call), SubSeq(call.request, 1, k), <<>>, <<>>)

\* the entries a step appended to a list
Appended(before, after) == SubSeq(after, Len(before) + 1, Len(after))

\* the rule of claim C4 for entry k of the request of an allocate_resources call
PartialRule(call, k) ==
    LET item   == Lower(call.request[k].item)
        q      == call.request[k].quantity
        before == LoopAfter(call, k - 1)
        after  == LoopAfter(call, k)
        a      == before.inv[item].total - before.inv[item].reserved
        grown  == after.inv[item].reserved - before.inv[item].reserved
        assigned  == Appended(before.equipment_assigned, after.equipment_assigned)
        shortfall == Appended(before.shortfall, after.shortfall)
    IN  item \in KnownItems =>
          /\ grown = Min(q, a)
          /\ a >= q =>
               /\ assigned = <<[item |-> item, quantity |-> q]>>
               /\ shortfall = <<>>
          /\ (0 < a /\ a < q) =>
               /\ assigned = <<[item |-> item, quantity |-> a]>>
               /\ shortfall = <<[item |-> item, quantity |-> q - a,
                                 reason |-> "insufficient_stock"]>>
          /\ a = 0 /\ a < q =>
               /\ grown = 0
               /\ assigned = <<>>
               /\ shortfall = <<[item |-> item, quantity |-> q,
                                 reason |-> "out_of_stock"]>>

\* what the call returned and left in the ledger is what its loop computed
LoopIsCall(call) ==
    LET loop == LoopAfter(call, Len(call.request))
    IN  /\ inventory = loop.inv
        /\ call.ret.equipment_assigned = loop.equipment_assigned
        /\ call.ret.shortfall = loop.shortfall

\* C4: for each requested item known to the ledger, with a the available count
\* just before it is processed and q the requested quantity, reserved grows by
\* min(q, a); a >= q assigns q with no shortfall; 0 < a < q assigns a and
\* records the shortfall q - a (insufficient_stock); a = 0 reserves nothing and
\* records the shortfall q (out_of_stock).
C4_PartialFulfilment ==
    last.op = "allocate_resources" =>
        /\ LoopIsCall(last)
        /\ \A k \in DOMAIN last.request : PartialRule(last, k)

\* units recorded for an item over all active allocation records
RecordedUnits(i) ==
    LET RECURSIVE Over(_)
        Over(ms) ==
            IF ms = {} THEN 0
            ELSE LET m == CHOOSE x \in ms : TRUE
                 IN  SumQty(active_allocations[m].equipment_assigned, i)
                     + Over(ms \ {m})
    IN  Over(DOMAIN active_allocations)

\* C5: in every reachable state, for every item, the quantities recorded for it
\* in equipment_assigned over all active records do not exceed its reserved count.
C5_RecordedWithinReserved ==
    \A i \in KnownItems : RecordedUnits(i) <= inventory[i].reserved

\* C6 (the second call): allocate_resources on a mission that has an active
\* record replaces the record and releases nothing of the first call.
C6_OverwriteKeepsReservations ==
    (last.op = "allocate_resources" /\ last.overwrote) =>
        /\ active_allocations[last.mission].equipment_assigned
               = last.ret.equipment_assigned
        /\ \A i \in KnownItems :
               inventory[i].reserved
                   = last.pre[i] + SumQty(last.ret.equipment_assigned, i)

\* C6 (the later release): release_resources after such a second call returns
\* the quantities of the second call only, so the ledger is back where it was
\* before the second call, the first call's units still reserved.
C6_ReleaseReturnsSecondOnly ==
    (/\ last.op = "release_resources"
     /\ last.after # NoLast
     /\ last.after.overwrote)
    => /\ last.ret.items_returned = last.after.ret.equipment_assigned
       /\ \A i \in KnownItems : inventory[i].reserved = last.after.pre[i]

\* C6: a second allocate_resources for a mission with an active record replaces
\* the record without releasing the first call's reservations, and a release
\* that follows returns only the second call's quantities.
C6_OverwriteLeaks ==
    /\ C6_OverwriteKeepsReservations
    /\ C6_ReleaseReturnsSecondOnly

\* C18: reserve_items fails when the item is unknown or the quantity exceeds
\* what is available, and a failed call leaves the reserved count of every
\* item as it was; a successful call raises reserved by exactly the quantity
\* and reports available_after = total - reserved.
C18_ReserveAllOrNothing ==
    last.op = "reserve_items" =>
        /\ last.item \notin KnownItems => ~last.ret.success
        /\ (last.item \in KnownItems
            /\ last.quantity > inventory[last.item].total - last.pre[last.item])
               => ~last.ret.success
        /\ ~last.ret.success => ReservedOf(inventory) = last.pre
        /\ last.ret.success =>
               /\ last.item \in KnownItems
               /\ ReservedOf(inventory) =
                      [last.pre EXCEPT ![last.item] = @ + last.quantity]
               /\ last.ret.available_after =
                      inventory[last.item].total - inventory[last.item].reserved

\* more was asked for than the stock that was left, part of it being reserved
C18_RefusedBeyondAvailable ==
    /\ last.op = "reserve_items"
    /\ last.item \in KnownItems
    /\ last.pre[last.item] > 0
    /\ last.quantity <= inventory[last.item].total
    /\ last.quantity > inventory[last.item].total - last.pre[last.item]
    /\ ~last.ret.success

\* C19: release_items on a known item succeeds, lowers reserved by exactly
\* min(quantity, reserved) and reports that amount as released; a request for
\* more than is reserved is clamped, and reserved is not negative afterwards.
C19_ReleaseClamped ==
    (last.op = "release_items" /\ last.item \in KnownItems) =>
        /\ last.ret.success
        /\ last.ret.released = Min(last.quantity, last.pre[last.item])
        /\ ReservedOf(inventory) =
               [last.pre EXCEPT ![last.item] = @ - last.ret.released]
        /\ inventory[last.item].reserved >= 0

\* more units were released than were reserved
C19_OverRelease ==
    /\ last.op = "release_items"
    /\ last.item \in KnownItems
    /\ last.pre[last.item] > 0
    /\ last.quantity > last.pre[last.item]
    /\ last.ret.released = last.pre[last.item]
    /\ inventory[last.item].reserved = 0

\* C20: release_resources for a mission without an active record returns
\* released = false and no items, and changes neither the ledger nor the
\* records; a successful release deletes the record of the mission, so the
\* next release of the mission finds none.
C20_ReleaseUnknownMission ==
    last.op = "release_resources" =>
        /\ last.ret.released <=> last.mission \in DOMAIN last.records
        /\ ~last.ret.released =>
               /\ last.ret.items_returned = <<>>
               /\ ReservedOf(inventory) = last.pre
               /\ active_allocations = last.records
        /\ last.ret.released =>
               /\ last.mission \notin DOMAIN active_allocations
               /\ \A m \in DOMAIN last.records \ {last.mission} :
                      /\ m \in DOMAIN active_allocations
                      /\ active_allocations[m] = last.records[m]

\* a mission that held units was released twice in a row
C20_SecondReleaseFails ==
    /\ last.op = "release_resources"
    /\ ~last.ret.released
    /\ last.previous.op = "release_resources"
    /\ last.previous.ret.released
    /\ last.previous.ret.items_returned # <<>>

\* reserved counts the last call raised
Raised(call) == {i \in KnownItems : inventory[i].reserved > call.pre[i]}

\* C21: the allocated flag of allocate_resources is true exactly when the
\* call added at least one unit to the reserved counts of the ledger, and
\* false when every requested item ended in shortfall.
C21_AllocatedIffUnitsReserved ==
    last.op = "allocate_resources" =>
        /\ last.ret.allocated <=> Raised(last) # {}
        /\ (/\ last.request # <<>>
            /\ last.ret.equipment_assigned = <<>>) => ~last.ret.allocated

\* the entries of a list of requests or results that name an item
Naming(entries, i) == SelectSeq(entries, LAMBDA e : Lower(e.item) = i)

\* C22: a requested item the ledger does not know is appended to shortfall
\* with the full requested quantity and the reason item_not_found, changes
\* no reserved count, and the items after it in the request are processed.
C22_UnknownItemToShortfall ==
    last.op = "allocate_resources" =>
        LET unknown == SelectSeq(last.request,
                                 LAMBDA e : Lower(e.item) \notin KnownItems)
            not_found == SelectSeq(last.ret.shortfall,
                                   LAMBDA e : e.reason = "item_not_found")
        IN  /\ not_found =
                   [k \in DOMAIN unknown |->
                       [item |-> Lower(unknown[k].item),
                        quantity |-> unknown[k].quantity,
                        reason |-> "item_not_found"]]
            /\ \A k \in DOMAIN last.ret.equipment_assigned :
                   last.ret.equipment_assigned[k].item \in KnownItems
            /\ Len(unknown) = Len(last.request) => ReservedOf(inventory) = last.pre
            /\ \A i \in KnownItems :
                   Len(Naming(last.request, i))
                       <= Len(Naming(last.ret.equipment_assigned, i))
                          + Len(Naming(last.ret.shortfall, i))

\* an unknown item came first in a request and the known item after it was
\* reserved
C22_UnknownThenKnown ==
    /\ last.op = "allocate_resources"
    /\ Len(last.request) = 2
    /\ last.request[1].item = "invalid_item"
    /\ last.request[1].quantity > 0
    /\ last.ret.shortfall = <<[item |-> "invalid_item",
                               quantity |-> last.request[1].quantity,
                               reason |-> "item_not_found"]>>
    /\ Len(last.ret.equipment_assigned) = 1
    /\ Raised(last) # {}

\* the team id of the claim for the n-th call without a team id, written out
NthTeam(n) ==
    CASE n % 6 = 0 -> "T-Alpha"
      [] n % 6 = 1 -> "T-Bravo"
      [] n % 6 = 2 -> "T-Charlie"
      [] n % 6 = 3 -> "T-Delta"
      [] n % 6 = 4 -> "T-Echo"
      [] n % 6 = 5 -> "T-Foxtrot"

\* C23: the n-th allocate_resources call made without a team id (n = 0, 1,
\* ...) returns the team id 'T-' + TEAM_NAMES[n mod 6] and records it; a call
\* with a team id returns that id and does not advance the sequence
\* (_next_team_index counts the calls made without a team id).
C23_RoundRobinTeams ==
    last.op = "allocate_resources" =>
        /\ active_allocations[last.mission].team_id = last.ret.team_id
        /\ IF last.team_id = "None"
           THEN /\ last.ret.team_id = NthTeam(last.index)
                /\ next_team_index = last.index + 1
           ELSE /\ last.ret.team_id = last.team_id
                /\ next_team_index = last.index

\* the seventh call without a team id came back to the first team
C23_WrappedAfterFoxtrot ==
    /\ last.op = "allocate_resources"
    /\ last.team_id = "None"
    /\ last.index = 6
    /\ last.ret.team_id = "T-Alpha"

\* C29: the status of an item depends on its available count and its
\* threshold only: out when nothing is available, critical up to half the
\* threshold, low up to the threshold, ok above it, for every available count
\* from 0 to the total and every threshold from 0 on; reading it leaves the
\* ledger as it was.
C29_StatusFromAvailableAndThreshold ==
    (last.op = "get_item_status" /\ ~last.ret.error)
    => LET item == last.pre[Lower(last.item)]
           available == item.total - item.reserved
           threshold == item.threshold
       IN  /\ inventory = last.pre
           /\ last.ret.available = available
           /\ (available \in 0..item.total /\ threshold >= 0)
                  => /\ last.ret.status = "out" <=> available <= 0
                     /\ last.ret.status = "critical"
                            <=> (available > 0 /\ 2 * available <= threshold)
                     /\ last.ret.status = "low"
                            <=> (2 * available > threshold /\ available > 0
                                 /\ available <= threshold)
                     /\ last.ret.status = "ok"
                            <=> (available > 0 /\ available > threshold)

\* two units are available against a threshold of three: low, not critical
C29_OddThreshold ==
    /\ last.op = "get_item_status"
    /\ ~last.ret.error
    /\ last.ret.threshold = 3
    /\ last.ret.available = 2
    /\ last.ret.status = "low"

\* C34: when the ledger is changed only through allocate_resources and
\* release_resources with quantities from 0 up and no mission is allocated
\* again while its record is active, the reserved count of every item is the
\* sum of the item's quantities over the active records, and so 0 once every
\* mission is released.
C34_ReservedIsSumOfRecords ==
    \A i \in KnownItems :
        inventory[i].reserved = RecordedUnits(i)

\* the whole stock of an item was held, and the last mission has been released
C34_AllReleased ==
    /\ last.op = "release_resources"
    /\ last.ret.released
    /\ last.ret.items_returned # <<>>
    /\ active_allocations = <<>>
    /\ \E i \in KnownItems : last.pre[i] = INITIAL_INVENTORY[i].total
    /\ \A i \in KnownItems : inventory[i].reserved = 0

\* C35: allocate_resources stores a record under the mission id on every
\* call, also when it assigned nothing; a release_resources that follows such
\* a call returns released = true with no items, changes no reserved count
\* and deletes the record.
C35_EmptyRecordReleased ==
    /\ last.op = "allocate_resources" =>
           /\ last.mission \in DOMAIN active_allocations
           /\ active_allocations[last.mission].equipment_assigned
                  = last.ret.equipment_assigned
           /\ last.ret.equipment_assigned = <<>> => ~last.ret.allocated
    /\ (/\ last.op = "release_resources"
        /\ last.after # NoLast
        /\ last.after.ret.equipment_assigned = <<>>)
       => /\ last.ret.released
          /\ last.ret.items_returned = <<>>
          /\ ReservedOf(inventory) = last.pre
          /\ last.mission \notin DOMAIN active_allocations

\* a request that ended in shortfall only was allocated and then released
C35_ShortfallOnlyReleased ==
    /\ last.op = "release_resources"
    /\ last.after # NoLast
    /\ last.after.ret.equipment_assigned = <<>>
    /\ last.after.ret.shortfall # <<>>
    /\ ~last.after.ret.allocated
    /\ last.ret.released

-----------------------------------------------------------------------------
(* SpecRace: reserve_items called from two threads.  Nothing in inventory.py  *)
(* takes a lock, so a thread can be preempted between any two accesses of     *)
(* _inventory: the read of reserved at line 237, and the read and the write   *)
(* of reserved that make up `item_data["reserved"] += quantity` at line 247.  *)

\* lines 226-245: the lookup, the read of available and the check
reserve_check(c, item_name, quantity) ==
    /\ callers[c].pc = "idle"
    /\ LET status == get_item_status(inventory, item_name) IN
       IF status.error
       THEN callers' = [callers EXCEPT ![c] =
                [pc |-> "done", item |-> Lower(item_name), quantity |-> quantity,
                 ret |-> [success |-> FALSE, error |-> "not_found"]]]
       ELSE IF quantity > status.available
       THEN callers' = [callers EXCEPT ![c] =
                [pc |-> "done", item |-> Lower(item_name), quantity |-> quantity,
                 ret |-> [success |-> FALSE, error |-> "insufficient_stock",
                          available |-> status.available]]]
       ELSE callers' = [callers EXCEPT ![c] =
                [pc |-> "add", item |-> Lower(item_name), quantity |-> quantity]]
    /\ UNCHANGED <<ledgerVars, queueVars, teamVars>>

\* line 247, the read of item_data["reserved"]
reserve_add(c) ==
    /\ callers[c].pc = "add"
    /\ callers' = [callers EXCEPT ![c] =
           [pc |-> "store", item |-> callers[c].item, quantity |-> callers[c].quantity,
            sum |-> inventory[callers[c].item].reserved + callers[c].quantity]]
    /\ UNCHANGED <<ledgerVars, queueVars, teamVars>>

\* line 247, the write of item_data["reserved"]
reserve_store(c) ==
    /\ callers[c].pc = "store"
    /\ inventory' = [inventory EXCEPT ![callers[c].item].reserved = callers[c].sum]
    /\ callers' = [callers EXCEPT ![c] =
           [pc |-> "stored", item |-> callers[c].item, quantity |-> callers[c].quantity]]
    /\ UNCHANGED <<active_allocations, next_team_index, last, recording, queueVars, teamVars>>

\* lines 248-254: available_after and the result
reserve_return(c) ==
    /\ callers[c].pc = "stored"
    /\ callers' = [callers EXCEPT ![c] =
           [pc |-> "done", item |-> callers[c].item, quantity |-> callers[c].quantity,
            ret |-> [success |-> TRUE, reserved |-> callers[c].quantity,
                     available_after |->
                         inventory[callers[c].item].total
                             - inventory[callers[c].item].reserved]]]
    /\ UNCHANGED <<ledgerVars, queueVars, teamVars>>

InitRaceSpec ==
    /\ InitLedger
    /\ recording = FALSE
    /\ InitRace
    /\ InitQueue
    /\ InitTeams

NextRace ==
    \/ \E c \in Callers, i \in RequestNames, q \in Quantities : reserve_check(c, i, q)
    \/ \E c \in Callers : reserve_add(c)
    \/ \E c \in Callers : reserve_store(c)
    \/ \E c \in Callers : reserve_return(c)

SpecRace == InitRaceSpec /\ [][NextRace]_vars

\* the calls of the two threads that returned success
Succeeded == {c \in Callers : callers[c].pc = "done" /\ callers[c].ret.success}

\* C2: two reserve_items calls on the same item whose quantities add up to more
\* than the available count before either call never both succeed, and reserved
\* never exceeds total.
C2_NoDoubleReserve ==
    /\ \A i \in KnownItems :
           (/\ Succeeded = Callers
            /\ \A c \in Callers : callers[c].item = i)
           => callers["caller_1"].quantity + callers["caller_2"].quantity
                  <= INITIAL_INVENTORY[i].total - INITIAL_INVENTORY[i].reserved
    /\ \A i \in KnownItems : inventory[i].reserved <= inventory[i].total

\* A thread inside allocate_resources: other callers of the ledger run between
\* its get_item_status (line 84) and its reserve_items (lines 99 and 107).
\* `reserved` is history: what the call's reserve_items added.
allocate_begin(c, mission_id, equipment_list) ==
    /\ callers[c].pc = "idle"
    /\ callers' = [callers EXCEPT ![c] =
           [pc |-> "status", mission |-> mission_id, request |-> equipment_list,
            rest |-> equipment_list, available |-> 0,
            equipment_assigned |-> <<>>, shortfall |-> <<>>, reserved |-> <<>>]]
    /\ UNCHANGED <<ledgerVars, queueVars, teamVars>>

\* lines 78-95 and 118-124: the availability check of the next request
allocate_status(c) ==
    /\ callers[c].pc = "status"
    /\ callers[c].rest # <<>>
    /\ LET item_name     == Lower(Head(callers[c].rest).item)
           requested_qty == Head(callers[c].rest).quantity
           status        == get_item_status(inventory, item_name)
       IN  IF status.error
           THEN callers' = [callers EXCEPT
                    ![c].rest = Continue(Tail(@)),
                    ![c].shortfall = Append(@,
                        [item |-> item_name, quantity |-> requested_qty,
                         reason |-> "item_not_found"])]
           ELSE IF status.available >= requested_qty \/ status.available > 0
           THEN callers' = [callers EXCEPT ![c].pc = "reserve",
                                           ![c].available = status.available]
           ELSE callers' = [callers EXCEPT
                    ![c].rest = Tail(@),
                    ![c].shortfall = Append(@,
                        [item |-> item_name, quantity |-> requested_qty,
                         reason |-> "out_of_stock"])]
    /\ UNCHANGED <<ledgerVars, queueVars, teamVars>>

\* lines 97-117: reserve_items with the count read at line 95
allocate_reserve(c) ==
    /\ callers[c].pc = "reserve"
    /\ LET item_name     == Lower(Head(callers[c].rest).item)
           requested_qty == Head(callers[c].rest).quantity
           available     == callers[c].available
           full          == available >= requested_qty
           quantity      == IF full THEN requested_qty ELSE available
       IN  \E result \in {Reserve(inventory, item_name, quantity)} :
             /\ Explored(result.inv)
             /\ inventory' = result.inv
             /\ callers' = [callers EXCEPT
                    ![c].pc = "status",
                    ![c].rest = Tail(@),
                    ![c].equipment_assigned =
                        IF result.ret.success
                        THEN Append(@, [item |-> item_name, quantity |-> quantity])
                        ELSE @,
                    ![c].reserved =
                        IF result.ret.success
                        THEN Append(@, [item |-> item_name,
                                        quantity |-> result.ret.reserved])
                        ELSE @,
                    ![c].shortfall =
                        IF full THEN @
                        ELSE Append(@, [item |-> item_name,
                                        quantity |-> requested_qty - available,
                                        reason |-> "insufficient_stock"])]
    /\ UNCHANGED <<active_allocations, next_team_index, last, recording>>
    /\ UNCHANGED <<queueVars, teamVars>>

\* lines 126-147: the record is stored and the response returned
allocate_return(c, team_id) ==
    /\ callers[c].pc = "status"
    /\ callers[c].rest = <<>>
    /\ active_allocations' =
           Stored(active_allocations, callers[c].mission,
                  [mission_id |-> callers[c].mission, team_id |-> team_id,
                   equipment_assigned |-> callers[c].equipment_assigned])
    /\ callers' = [callers EXCEPT ![c] =
           [pc |-> "returned", request |-> callers[c].request,
            reserved |-> callers[c].reserved,
            ret |-> [allocated |-> Len(callers[c].equipment_assigned) > 0,
                     team_id |-> team_id,
                     equipment_assigned |-> callers[c].equipment_assigned,
                     shortfall |-> callers[c].shortfall]]]
    /\ UNCHANGED <<inventory, next_team_index, last, recording>>
    /\ UNCHANGED <<queueVars, teamVars>>

\* the thread followed inside allocate_resources
Allocators == {"caller_1"}

\* SpecInterleave: one allocate_resources call step by step beside complete
\* reserve_items and release_items calls of other callers
InitInterleave ==
    /\ InitLedger
    /\ recording = FALSE
    /\ InitRace
    /\ InitQueue
    /\ InitTeams

NextInterleave ==
    \/ \E c \in Allocators, l \in EquipmentLists : allocate_begin(c, "M-1", l)
    \/ \E c \in Allocators : allocate_status(c)
    \/ \E c \in Allocators : allocate_reserve(c)
    \/ \E c \in Allocators : allocate_return(c, "T-Special")
    \/ \E i \in KnownItems, q \in Quantities : reserve_items(i, q)
    \/ \E i \in KnownItems, q \in Quantities : release_items(i, q)

SpecInterleave == InitInterleave /\ [][NextInterleave]_vars

\* C32: for each known item of the request, what allocate_resources assigned
\* plus what it put in shortfall is what was requested, and what it assigned is
\* what its reserve_items calls reserved, also when other callers reserve or
\* release the item between its availability check and its reserve_items.
C32_EveryUnitAccounted ==
    \A c \in Allocators :
        callers[c].pc = "returned" =>
            \A i \in ItemsOf(callers[c].request) :
                /\ SumQty(callers[c].ret.equipment_assigned, i)
                       + SumQty(callers[c].ret.shortfall, i)
                   = SumQty(callers[c].request, i)
                /\ SumQty(callers[c].ret.equipment_assigned, i)
                   = SumQty(callers[c].reserved, i)

-----------------------------------------------------------------------------
(* priority_queue_service.py *)

\* number of clock readings told apart
MaxClock == 1
\* number of calls followed when tasks run concurrently
MaxCalls == 3
\* scores range over SimulatedScore .. SimulatedScore + ScoreSpan
ScoreSpan == 1

\* the score process_validated_report passes (main_orchestrator/tools.py)
SimulatedScore == 7

Scores == SimulatedScore .. (SimulatedScore + ScoreSpan)

VictimIds == {"victim_a", "victim_b"}

Statuses == {"pending", "in_progress", "resolved"}

\* An entry of the queue is [victim_id, score, timestamp, status]; the fields
\* that no operation reads back (location, description, ...) are left out.
\* timestamp is the clock reading: datetime.now(timezone.utc).isoformat()
\* gives strings whose order is the order of the instants they denote.

\* json.dumps(self.queue_cache): the artifact holds one row per entry
dumps(queue) ==
    [k \in DOMAIN queue |->
        <<queue[k].victim_id, queue[k].score, queue[k].timestamp, queue[k].status>>]

\* json.loads(result["content"])
loads(content) ==
    [k \in DOMAIN content |->
        [victim_id |-> content[k][1], score |-> content[k][2],
         timestamp |-> content[k][3], status |-> content[k][4]]]

\* the sort key of line 189, (-score, timestamp): x sorts strictly before y
KeyLess(x, y) ==
    \/ x.score > y.score
    \/ x.score = y.score /\ x.timestamp < y.timestamp

\* list.sort is stable: an entry goes behind every entry whose key is not larger
RECURSIVE InsertByKey(_, _)
InsertByKey(sorted, x) ==
    IF sorted = <<>> THEN <<x>>
    ELSE IF KeyLess(x, Head(sorted)) THEN <<x>> \o sorted
    ELSE <<Head(sorted)>> \o InsertByKey(Tail(sorted), x)

Unsorted(queue) == queue

RECURSIVE SortQueue(_)
SortQueue(queue) ==
    IF queue = <<>> THEN <<>>
    ELSE InsertByKey(SortQueue(SubSeq(queue, 1, Len(queue) - 1)), queue[Len(queue)])

\* positions of the entries of a victim
IndexesOf(queue, victim_id) == {k \in DOMAIN queue : queue[k].victim_id = victim_id}

FirstIndex(queue, victim_id) ==
    CHOOSE k \in IndexesOf(queue, victim_id) :
        \A j \in IndexesOf(queue, victim_id) : k <= j

AlwaysAppend(queue, queue_entry) == Append(queue, queue_entry)

\* lines 141-186: replace the existing entry in place or append the new one
Upsert(queue, queue_entry) ==
    IF IndexesOf(queue, queue_entry.victim_id) # {}
    THEN [queue EXCEPT ![FirstIndex(queue, queue_entry.victim_id)] = queue_entry]
    ELSE Append(queue, queue_entry)

\* _get_position: 1-indexed, -1 when the victim is not in the queue
get_position(queue, victim_id) ==
    IF IndexesOf(queue, victim_id) = {} THEN -1 ELSE FirstIndex(queue, victim_id)

\* the queue emptied when the victim is in it
Emptied(queue, victim_id) ==
    IF \E k \in DOMAIN queue : queue[k].victim_id = victim_id THEN <<>> ELSE queue

\* line 298 of remove_victim
Without(queue, victim_id) ==
    LET keep == {k \in DOMAIN queue : queue[k].victim_id # victim_id}
        RECURSIVE Pick(_)
        Pick(k) == IF k > Len(queue) THEN <<>>
                   ELSE (IF k \in keep THEN <<queue[k]>> ELSE <<>>) \o Pick(k + 1)
    IN  Pick(1)

-----------------------------------------------------------------------------
(* The tools that call the queue service *)

\* bool(x) of a dict
Truthy(dict) == DOMAIN dict # {}

\* main_orchestrator/tools.py process_validated_report: the status it returns
\* once add_or_update_victim has returned queue_result
process_validated_report(queue_result) == "success"

\* main_orchestrator/tools.py update_victim_status: `if success:` on the dict
\* that the service returned
update_victim_status_tool(update_result) ==
    IF Truthy(update_result) THEN "success" ELSE "error"

\* resource_agent/tools.py update_victim_status: update_result.get("success")
resource_update_victim_status_tool(update_result) ==
    IF update_result.success THEN "success" ELSE "error"

-----------------------------------------------------------------------------
(* The operations of the queue service run as asyncio tasks.  A task runs     *)
(* alone until it awaits load_artifact (load_queue) or the artifact helper    *)
(* (save_queue); there another task may run.  In SpecQueue the calls come one *)
(* after the other: one task makes them, each awaited before the next.        *)

\* a call in flight: pc is where it waits, loaded what load_artifact gave,
\* content what json.dumps captured, saved what save_queue returns
Waiting(pc, call, loaded, content, saved) ==
    [pc |-> pc, call |-> call, loaded |-> loaded, content |-> content,
     saved |-> saved]

\* the result the caller of the service gets, and what the tools make of it
Returned(t, call, attempted, saved, ret) ==
    [kind |-> "return", task |-> t, op |-> call.op, victim_id |-> call.victim_id,
     call |-> call, save_attempted |-> attempted, saved |-> saved, ret |-> ret,
     tool_status |->
         IF call.op = "add_or_update_victim" THEN process_validated_report(ret)
         ELSE IF call.op = "update_victim_status" THEN update_victim_status_tool(ret)
         ELSE "none",
     resource_tool_status |->
         IF call.op = "add_or_update_victim" THEN process_validated_report(ret)
         ELSE IF call.op = "update_victim_status"
              THEN resource_update_victim_status_tool(ret)
         ELSE "none"]

\* the journal is kept only while calls are recorded
Counted(j) == IF recording THEN [j EXCEPT !.calls = @ + 1] ELSE j

Mutated(j, before, after) ==
    IF recording
    THEN [j EXCEPT !.previous = before, !.states = @ \cup {after}]
    ELSE j

\* victims[:limit]
Slice(list, limit) ==
    IF limit >= 0 THEN SubSeq(list, 1, Min(limit, Len(list)))
    ELSE SubSeq(list, 1, Len(list) + limit)

\* [v for v in victims if v.get("status") == status_filter]
WithStatus(queue, status) ==
    LET RECURSIVE Pick(_)
        Pick(k) == IF k > Len(queue) THEN <<>>
                   ELSE (IF queue[k].status = status THEN <<queue[k]>> ELSE <<>>)
                        \o Pick(k + 1)
    IN  Pick(1)

\* the limit applied before the filter
LimitFirst(queue, limit, status_filter) ==
    LET victims == IF status_filter # "None" /\ status_filter # "all"
                   THEN WithStatus(Slice(queue, limit), status_filter)
                   ELSE Slice(queue, limit)
    IN  [status |-> "success", victims |-> victims,
         total_victims |-> Len(queue),
         filtered_count |-> Len(victims)]

\* get_priority_queue lines 215-229 as a function of the cache; the filter
\* "None" stands for the omitted argument
Listing(queue, limit, status_filter) ==
    LET victims == IF status_filter # "None" /\ status_filter # "all"
                   THEN WithStatus(queue, status_filter) ELSE queue
    IN  [status |-> "success", victims |-> Slice(victims, limit),
         total_victims |-> Len(queue),
         filtered_count |-> Len(Slice(victims, limit))]

\* get_priority_queue lines 215-229
ReadBody(t, call, queue, j) ==
    /\ queue_cache' = queue
    /\ tasks' = [tasks EXCEPT ![t] = Idle]
    /\ event' = Returned(t, call, FALSE, FALSE,
                    Listing(queue, call.limit, call.status_filter))
    /\ journal' = j
    /\ UNCHANGED arrivals

\* add_or_update_victim lines 141-192: up to the await of save_queue
UpsertBody(t, call, queue, j) ==
    LET queue_entry == [victim_id |-> call.victim_id, score |-> call.score,
                        timestamp |-> now, status |-> "pending"]
        sorted == SortQueue(Upsert(queue, queue_entry))
    IN  /\ queue_cache' = sorted
        /\ tasks' = [tasks EXCEPT ![t] =
               Waiting("save", call, <<>>, dumps(sorted), FALSE)]
        /\ event' = [kind |-> "upsert", task |-> t, victim_id |-> call.victim_id,
                     score |-> call.score,
                     existed |-> IndexesOf(queue, call.victim_id) # {},
                     before |-> Len(queue)]
        /\ arrivals' = IF \E k \in DOMAIN arrivals : arrivals[k] = call.victim_id
                       THEN arrivals ELSE Append(arrivals, call.victim_id)
        /\ journal' = Mutated(j, queue, sorted)

\* update_victim_status lines 264-282
StatusBody(t, call, queue, j) ==
    IF IndexesOf(queue, call.victim_id) # {}
    THEN LET changed == [queue EXCEPT
                            ![FirstIndex(queue, call.victim_id)].status = call.status]
         IN  /\ queue_cache' = changed
             /\ tasks' = [tasks EXCEPT ![t] =
                    Waiting("save", call, <<>>, dumps(changed), FALSE)]
             /\ event' = [kind |-> "status", task |-> t,
                          victim_id |-> call.victim_id, status |-> call.status]
             /\ journal' = Mutated(j, queue, changed)
             /\ UNCHANGED arrivals
    ELSE /\ queue_cache' = queue
         /\ tasks' = [tasks EXCEPT ![t] = Idle]
         /\ event' = Returned(t, call, FALSE, FALSE,
                         [success |-> FALSE, victim_id |-> call.victim_id])
         /\ journal' = j
         /\ UNCHANGED arrivals

\* remove_victim lines 297-306
RemoveBody(t, call, queue, j) ==
    LET kept == Without(queue, call.victim_id)
    IN  IF Len(kept) < Len(queue)
        THEN /\ queue_cache' = kept
             /\ tasks' = [tasks EXCEPT ![t] =
                    Waiting("save", call, <<>>, dumps(kept), FALSE)]
             /\ event' = [kind |-> "remove", task |-> t,
                          victim_id |-> call.victim_id]
             /\ journal' = Mutated(j, queue, kept)
             /\ UNCHANGED arrivals
        ELSE /\ queue_cache' = kept
             /\ tasks' = [tasks EXCEPT ![t] = Idle]
             /\ event' = Returned(t, call, FALSE, FALSE, [removed |-> FALSE])
             /\ journal' = j
             /\ UNCHANGED arrivals

\* the part of an operation between load_queue and save_queue
Body(t, call, queue, j) ==
    IF call.op = "add_or_update_victim" THEN UpsertBody(t, call, queue, j)
    ELSE IF call.op = "update_victim_status" THEN StatusBody(t, call, queue, j)
    ELSE IF call.op = "remove_victim" THEN RemoveBody(t, call, queue, j)
    ELSE ReadBody(t, call, queue, j)

\* `if not self.queue_cache: await self.load_queue()` at the head of every
\* operation, and the operation's body when the cache holds entries
Begin(t, call) ==
    /\ recording => journal.calls < MaxCalls
    /\ IF queue_cache = <<>>
       THEN /\ tasks' = [tasks EXCEPT ![t] = Waiting("load", call, <<>>, <<>>, FALSE)]
            /\ journal' = Counted(journal)
            /\ UNCHANGED <<queue_cache, event, arrivals>>
       ELSE Body(t, call, queue_cache, Counted(journal))
    /\ UNCHANGED <<storage, now>>
    /\ UNCHANGED <<ledgerVars, raceVars, teamVars>>

add_or_update_victim(t, victim_id, score) ==
    /\ tasks[t].pc = "idle"
    /\ Begin(t, [op |-> "add_or_update_victim", victim_id |-> victim_id,
                 score |-> score, status |-> "pending"])

update_victim_status(t, victim_id, status) ==
    /\ tasks[t].pc = "idle"
    /\ Begin(t, [op |-> "update_victim_status", victim_id |-> victim_id,
                 score |-> 0, status |-> status])

remove_victim(t, victim_id) ==
    /\ tasks[t].pc = "idle"
    /\ Begin(t, [op |-> "remove_victim", victim_id |-> victim_id,
                 score |-> 0, status |-> "none", seen |-> queue_cache])

get_priority_queue(t, limit, status_filter) ==
    /\ tasks[t].pc = "idle"
    /\ Begin(t, [op |-> "get_priority_queue", victim_id |-> "none",
                 limit |-> limit, status_filter |-> status_filter,
                 seen |-> queue_cache])



\* the agents whose tools call the queue service
Agents == {"main_orchestrator", "resource_agent"}

\* resource_agent/tools.py valid_statuses
resource_valid_statuses == {"pending", "in_progress", "resolved"}

AllowedAlways(agent, status) == TRUE

\* `if status not in [...]` of the update_victim_status tool of an agent
Allowed(agent, status) ==
    IF agent = "main_orchestrator" THEN status \in Statuses
    ELSE status \in resource_valid_statuses

\* the update_victim_status tool of an agent: the status is checked, then the
\* service is called
tool_update_victim_status(t, agent, victim_id, status) ==
    /\ tasks[t].pc = "idle"
    /\ IF Allowed(agent, status)
       THEN update_victim_status(t, victim_id, status)
       ELSE /\ event' = [kind |-> "rejected", task |-> t, agent |-> agent,
                         op |-> "update_victim_status", victim_id |-> victim_id,
                         status |-> status, ret |-> [status |-> "error"],
                         before |-> queue_cache, stored |-> storage]
            /\ UNCHANGED <<queue_cache, storage, now, tasks, arrivals, journal>>
            /\ UNCHANGED <<ledgerVars, raceVars, teamVars>>

\* load_queue lines 46-55 and 64-67: load_artifact answers with the content of
\* the artifact, with nothing, or raises
load_artifact(t) ==
    /\ tasks[t].pc = "load"
    /\ \E raised \in BOOLEAN :
           tasks' = [tasks EXCEPT ![t] =
               Waiting("loaded", tasks[t].call,
                       IF ~raised /\ storage.exists THEN loads(storage.content)
                       ELSE <<>>,
                       <<>>, FALSE)]
    /\ UNCHANGED <<queue_cache, storage, now, event, arrivals, journal>>
    /\ UNCHANGED <<ledgerVars, raceVars, teamVars>>

\* load_queue lines 56-67 when the task runs again: the cache becomes what was
\* loaded, and the operation goes on to its body
load_queue(t) ==
    /\ tasks[t].pc = "loaded"
    /\ Body(t, tasks[t].call, tasks[t].loaded, journal)
    /\ UNCHANGED <<storage, now>>
    /\ UNCHANGED <<ledgerVars, raceVars, teamVars>>

\* save_queue lines 76-98 and 108-110: the helper writes the content captured
\* at line 78, or fails
save_artifact(t) ==
    /\ tasks[t].pc = "save"
    /\ \E ok \in BOOLEAN :
         /\ storage' = IF ok THEN [exists |-> TRUE, content |-> tasks[t].content]
                       ELSE storage
         /\ tasks' = [tasks EXCEPT ![t] =
                Waiting("saved", tasks[t].call, <<>>, <<>>, ok)]
    /\ UNCHANGED <<queue_cache, now, event, arrivals, journal>>
    /\ UNCHANGED <<ledgerVars, raceVars, teamVars>>

\* save_queue lines 100-106 when the task runs again, and the return of the
\* operation that awaited it
save_queue(t) ==
    /\ tasks[t].pc = "saved"
    /\ LET call == tasks[t].call
           ret  == IF call.op = "add_or_update_victim"
                   THEN [victim_id |-> call.victim_id, score |-> call.score,
                         position |-> get_position(queue_cache, call.victim_id),
                         total_queue_size |-> Len(queue_cache)]
                   ELSE IF call.op = "update_victim_status"
                   THEN [success |-> TRUE, victim_id |-> call.victim_id,
                         new_status |-> call.status]
                   ELSE [removed |-> TRUE]
       IN  event' = Returned(t, call, TRUE, tasks[t].saved, ret)
    /\ tasks' = [tasks EXCEPT ![t] = Idle]
    /\ UNCHANGED <<queue_cache, storage, now, arrivals, journal>>
    /\ UNCHANGED <<ledgerVars, raceVars, teamVars>>

\* time passes
Tick ==
    /\ now < MaxClock
    /\ now' = now + 1
    /\ UNCHANGED <<queue_cache, storage, tasks, event, arrivals, journal>>
    /\ UNCHANGED <<ledgerVars, raceVars, teamVars>>

InitQueueSpec ==
    /\ InitLedger
    /\ recording = FALSE
    /\ InitRace
    /\ InitQueue
    /\ InitTeams

\* the task whose calls SpecQueue follows
Sequential == {"task_1"}

NextQueue ==
    \/ \E t \in Sequential, v \in VictimIds, s \in Scores :
           add_or_update_victim(t, v, s)
    \/ \E t \in Sequential, v \in VictimIds, st \in Statuses :
           update_victim_status(t, v, st)
    \/ \E t \in Sequential, v \in VictimIds : remove_victim(t, v)
    \/ \E t \in Sequential : load_artifact(t)
    \/ \E t \in Sequential : load_queue(t)
    \/ \E t \in Sequential : save_artifact(t)
    \/ \E t \in Sequential : save_queue(t)
    \/ Tick

SpecQueue == InitQueueSpec /\ [][NextQueue]_vars

\* SpecTasks: the calls of two tasks interleaved at the awaits, MaxCalls calls
\* in all, the states of the queue kept in the journal
InitTasks ==
    /\ InitLedger
    /\ recording = TRUE
    /\ InitRace
    /\ InitQueue
    /\ InitTeams

\* get_priority_queue(limit = 20)
DefaultLimit == 20

NextTasks ==
    \/ \E t \in Tasks, v \in VictimIds, s \in Scores :
           add_or_update_victim(t, v, s)
    \/ \E t \in Tasks, v \in VictimIds : update_victim_status(t, v, "in_progress")
    \/ \E t \in Tasks, v \in VictimIds : remove_victim(t, v)
    \/ \E t \in Tasks, f \in {"None", "pending"} :
           get_priority_queue(t, DefaultLimit, f)
    \/ \E t \in Tasks : load_artifact(t)
    \/ \E t \in Tasks : load_queue(t)
    \/ \E t \in Tasks : save_artifact(t)
    \/ \E t \in Tasks : save_queue(t)
    \/ Tick

SpecTasks == InitTasks /\ [][NextTasks]_vars

\* SpecListing: the queue filled, changed and listed by one task
InitListing ==
    /\ InitLedger
    /\ recording = FALSE
    /\ InitRace
    /\ InitQueue
    /\ InitTeams

\* limits a caller passes
MaxLimit == 2
Limits == (0 .. MaxLimit) \cup {DefaultLimit}

\* status filters a caller passes
Filters == {"None", "all", "pending", "in_progress", "rescued"}

NextListing ==
    \/ \E t \in Sequential, v \in VictimIds :
           add_or_update_victim(t, v, SimulatedScore)
    \/ \E t \in Sequential, v \in VictimIds :
           update_victim_status(t, v, "in_progress")
    \/ \E t \in Sequential, v \in VictimIds : remove_victim(t, v)
    \/ \E t \in Sequential, l \in Limits, f \in Filters :
           get_priority_queue(t, l, f)
    \/ \E t \in Sequential : load_artifact(t)
    \/ \E t \in Sequential : load_queue(t)
    \/ \E t \in Sequential : save_artifact(t)
    \/ \E t \in Sequential : save_queue(t)

SpecListing == InitListing /\ [][NextListing]_vars

\* SpecRemove: MaxCalls calls of one task, the queue before the last change
\* kept in the journal
InitRemove ==
    /\ InitLedger
    /\ recording = TRUE
    /\ InitRace
    /\ InitQueue
    /\ InitTeams

NextRemove ==
    \/ \E t \in Sequential, v \in VictimIds, s \in Scores :
           add_or_update_victim(t, v, s)
    \/ \E t \in Sequential, v \in VictimIds :
           update_victim_status(t, v, "in_progress")
    \/ \E t \in Sequential, v \in VictimIds : remove_victim(t, v)
    \/ \E t \in Sequential : load_artifact(t)
    \/ \E t \in Sequential : load_queue(t)
    \/ \E t \in Sequential : save_artifact(t)
    \/ \E t \in Sequential : save_queue(t)

SpecRemove == InitRemove /\ [][NextRemove]_vars

\* SpecSubmit: reports submitted by two tasks at once while the artifact
\* service answers every load and every save
InitSubmit ==
    /\ InitLedger
    /\ recording = TRUE
    /\ InitRace
    /\ InitQueue
    /\ InitTeams

\* load_artifact returned the stored content
Answered(t) ==
    tasks'[t].loaded = IF storage.exists THEN loads(storage.content) ELSE <<>>

NextSubmit ==
    \/ \E t \in Tasks, v \in VictimIds : add_or_update_victim(t, v, SimulatedScore)
    \/ \E t \in Tasks : load_artifact(t) /\ Answered(t)
    \/ \E t \in Tasks : load_queue(t)
    \/ \E t \in Tasks : save_artifact(t) /\ tasks'[t].saved
    \/ \E t \in Tasks : save_queue(t)
    \/ Tick

SpecSubmit == InitSubmit /\ [][NextSubmit]_vars

-----------------------------------------------------------------------------
(* Properties of the priority queue *)

\* C7: in every state reached by add_or_update_victim, update_victim_status
\* and remove_victim the queue is sorted by (-score, timestamp): of two
\* adjacent entries the first has the higher score, or the same score and a
\* timestamp that is not later.
C7_QueueSorted ==
    \A k \in 1 .. (Len(queue_cache) - 1) :
        \/ queue_cache[k].score > queue_cache[k + 1].score
        \/ /\ queue_cache[k].score = queue_cache[k + 1].score
           /\ queue_cache[k].timestamp <= queue_cache[k + 1].timestamp

\* an upsert has put a new entry in front of an entry that was there before it
C7_NewEntryMovedForward ==
    /\ event.kind = "upsert"
    /\ ~event.existed
    /\ Len(queue_cache) >= 2
    /\ queue_cache[1].victim_id = event.victim_id

\* the place of a victim id in the order of first submission
ArrivalRank(victim_id) ==
    CHOOSE k \in DOMAIN arrivals : arrivals[k] = victim_id

\* C8: of two cases in the queue with equal score, the one whose id was first
\* submitted earlier has the smaller position, whatever happened in between
\* and whether or not either was upserted again.
C8_TiesByFirstSubmission ==
    \A j, k \in DOMAIN queue_cache :
        (/\ j < k
         /\ queue_cache[j].score = queue_cache[k].score)
        => ArrivalRank(queue_cache[j].victim_id)
               < ArrivalRank(queue_cache[k].victim_id)

\* C9: the queue holds at most one entry per victim id; the body of
\* add_or_update_victim (lines 141-189) replaces the entry of an id that is in
\* the queue, the length unchanged and the entry carrying the new score, and
\* makes the queue one longer for an id that is not.
C9_OneEntryPerVictim ==
    /\ \A j, k \in DOMAIN queue_cache :
           queue_cache[j].victim_id = queue_cache[k].victim_id => j = k
    /\ event.kind = "upsert" =>
           /\ IndexesOf(queue_cache, event.victim_id) # {}
           /\ queue_cache[FirstIndex(queue_cache, event.victim_id)].score
                  = event.score
           /\ event.existed => Len(queue_cache) = event.before
           /\ ~event.existed => Len(queue_cache) = event.before + 1

\* an upsert has replaced the entry of an id that was in a queue of several
C9_ReplacedInPlace ==
    /\ event.kind = "upsert"
    /\ event.existed
    /\ Len(queue_cache) >= 2
    /\ event.before = Len(queue_cache)
    /\ queue_cache[2].victim_id = event.victim_id

\* C10: when save_queue fails during add_or_update_victim or
\* update_victim_status, the tool that made the call (process_validated_report,
\* update_victim_status) returns an error result.
C10_SaveFailureReported ==
    (/\ event.kind = "return"
     /\ event.op \in {"add_or_update_victim", "update_victim_status"}
     /\ event.save_attempted
     /\ ~event.saved)
    => /\ event.tool_status = "error"
       /\ event.resource_tool_status = "error"

-----------------------------------------------------------------------------
(* Properties of the queue service under concurrent tasks *)

\* the queue a load_queue after a crash would bring back
Persisted == IF storage.exists THEN loads(storage.content) ELSE <<>>

\* C11: at every point the persisted queue is the in-memory queue or the
\* in-memory queue as it was before its most recent mutation, so that a crash
\* followed by load_queue loses at most one upsert, status change or removal.
C11_PersistedWithinOneMutation ==
    \/ Persisted = queue_cache
    \/ Persisted = journal.previous

\* the sort order of claim C7 for any list of entries
SortedList(list) ==
    \A k \in 1 .. (Len(list) - 1) :
        \/ list[k].score > list[k + 1].score
        \/ /\ list[k].score = list[k + 1].score
           /\ list[k].timestamp <= list[k + 1].timestamp

\* C12: under any interleaving of the queue operations of two tasks, every
\* list returned by get_priority_queue is sorted by (-score, timestamp) and is
\* (the entries with the requested status of) a state the queue has had
\* between two complete mutations.
C12_ReadsAreSnapshots ==
    (event.kind = "return" /\ event.op = "get_priority_queue") =>
        /\ SortedList(event.ret.victims)
        /\ \E q \in journal.states :
               /\ event.ret.total_victims = Len(q)
               /\ event.ret.victims =
                      IF event.call.status_filter = "None" THEN q
                      ELSE SelectSeq(q, LAMBDA v : v.status = event.call.status_filter)

\* a read returned two entries while the other task was inside an operation
C12_ReadBesideWriter ==
    /\ event.kind = "return"
    /\ event.op = "get_priority_queue"
    /\ Len(event.ret.victims) >= 2
    /\ \E t \in Tasks : tasks[t].pc \in {"load", "loaded", "save", "saved"}

\* C24: the position add_or_update_victim returns is the 1-indexed rank of
\* the victim in the full sorted queue when the call returns: at least 1,
\* never the not-found value -1, also beside the operations of another task.
C24_PositionIsRank ==
    (event.kind = "return" /\ event.op = "add_or_update_victim") =>
        /\ event.ret.position >= 1
        /\ event.ret.position <= Len(queue_cache)
        /\ queue_cache[event.ret.position].victim_id = event.victim_id
        /\ event.ret.total_queue_size = Len(queue_cache)

\* the steps the claim allows a status to take
StatusStep(from, to) ==
    \/ from = to
    \/ from = "pending" /\ to = "in_progress"
    \/ from = "in_progress" /\ to = "resolved"

-----------------------------------------------------------------------------
(* The rescue teams (team_tools.py) *)

\* team-tool calls followed from the start
MaxTeamCalls == 4

\* round(_calculate_distance(from, to), 2) in hundredths of a kilometre, the
\* Haversine formula evaluated on the coordinates of the places
\* (base_alpha - site_1 is 0.387548 km, base_charlie - site_1 0.387546 km)
DistanceTable ==
    [from \in Places |->
        CASE from = "base_alpha" -> [site_1 |-> 39, site_2 |-> 267]
          [] from = "base_bravo" -> [site_1 |-> 116, site_2 |-> 276]
          [] from = "base_charlie" -> [site_1 |-> 39, site_2 |-> 280]
          [] from = "base_delta" -> [site_1 |-> 159, site_2 |-> 113]
          [] from = "site_1" -> [site_1 |-> 0, site_2 |-> 271]
          [] from = "site_2" -> [site_1 |-> 271, site_2 |-> 0]]

distance_km(from, to) == DistanceTable[from][to]

\* _estimate_eta(_calculate_distance(from, to)): max(1, int(1.2 * 60 * km / 40))
EtaTable ==
    [from \in Places |->
        CASE from = "base_alpha" -> [site_1 |-> 1, site_2 |-> 4]
          [] from = "base_bravo" -> [site_1 |-> 2, site_2 |-> 4]
          [] from = "base_charlie" -> [site_1 |-> 1, site_2 |-> 5]
          [] from = "base_delta" -> [site_1 |-> 2, site_2 |-> 2]
          [] from = "site_1" -> [site_1 |-> 1, site_2 |-> 4]
          [] from = "site_2" -> [site_1 |-> 4, site_2 |-> 1]]

estimate_eta(from, to) == EtaTable[from][to]

valid_statuses == {"available", "en_route", "on_scene", "returning"}

\* statuses and team ids a caller passes
TeamStatuses == valid_statuses \cup {"off_duty"}

TeamRequests == TeamIds \cup {"T-Unknown"}

\* a case: the mission of the allocator, the victim a team is assigned to
Cases == Missions

\* required_equipment lists a caller passes (None and [] are both <<>>)
EquipmentNeeds ==
    {<<>>, <<"first_aid_kit">>, <<"stretcher", "first_aid_kit">>,
     <<"hose">>, <<"rescue_boat", "hose">>}

TeamNotFound == [status |-> "error", message |-> "not found"]

\* a team-tool call of the caller: counted, and recorded in `last`
TeamCall(call) ==
    /\ team_calls < MaxTeamCalls
    /\ team_calls' = team_calls + 1
    /\ last' = Record(call)
    /\ UNCHANGED <<inventory, active_allocations, next_team_index, recording>>
    /\ UNCHANGED <<raceVars, queueVars>>

AnyStatus(team) == FALSE

\* if team["status"] != "available"
NotAvailable(team) == team.status # "available"

assign_team_to_victim(team_id, victim_id, victim_location) ==
    LET call == [op |-> "assign_team_to_victim", team_id |-> team_id,
                 victim_id |-> victim_id, victim_location |-> victim_location,
                 pre |-> teams]
    IN  IF team_id \notin DOMAIN teams
        THEN /\ TeamCall(call @@ [ret |-> TeamNotFound])
             /\ UNCHANGED teams
        ELSE IF NotAvailable(teams[team_id])
        THEN /\ TeamCall(call @@
                    [ret |-> [status |-> "error", message |-> "not available",
                              current_assignment |-> teams[team_id].assigned_to]])
             /\ UNCHANGED teams
        ELSE LET eta_minutes ==
                     IF victim_location # None
                     THEN Some(estimate_eta(teams[team_id].location, victim_location[1]))
                     ELSE None
             IN  /\ teams' = [teams EXCEPT ![team_id].status = "en_route",
                                           ![team_id].assigned_to = Some(victim_id),
                                           ![team_id].eta_minutes = eta_minutes]
                 /\ TeamCall(call @@
                        [ret |-> [status |-> "success", team_id |-> team_id,
                                  assigned_to |-> victim_id,
                                  team_status |-> "en_route",
                                  eta_minutes |-> eta_minutes,
                                  team_location |-> teams[team_id].location]])

StatusAlone(team, status) == [team EXCEPT !.status = status]

\* lines 319-330 of update_team_status on the dict of the team
WithStatusSet(team, status) ==
    LET set == [team EXCEPT !.status = status]
        cleared == IF status = "available"
                   THEN [set EXCEPT !.assigned_to = None, !.eta_minutes = None]
                   ELSE set
    IN  IF status = "on_scene"
        THEN [cleared EXCEPT !.eta_minutes = Some(0)]
        ELSE cleared

update_team_status(team_id, status) ==
    LET call == [op |-> "update_team_status", team_id |-> team_id,
                 new_status |-> status, pre |-> teams]
    IN  IF team_id \notin DOMAIN teams
        THEN /\ TeamCall(call @@ [ret |-> TeamNotFound])
             /\ UNCHANGED teams
        ELSE IF status \notin valid_statuses
        THEN /\ TeamCall(call @@
                    [ret |-> [status |-> "error", message |-> "invalid status"]])
             /\ UNCHANGED teams
        ELSE     /\ teams' = [teams EXCEPT
                                ![team_id] = WithStatusSet(teams[team_id], status)]
                 /\ TeamCall(call @@
                        [ret |-> [status |-> "success", team_id |-> team_id,
                                  previous_status |-> teams[team_id].status,
                                  new_status |-> status]])

\* a team given back only when it has a case
ReleasedIfAssigned(team) ==
    IF team.assigned_to = None THEN team
    ELSE [team EXCEPT !.status = "available", !.assigned_to = None,
                      !.eta_minutes = None]

\* lines 367-369 of release_team on the dict of the team
Released(team) ==
    [team EXCEPT !.status = "available", !.assigned_to = None,
                 !.eta_minutes = None]

release_team(team_id) ==
    LET call == [op |-> "release_team", team_id |-> team_id, pre |-> teams]
    IN  IF team_id \notin DOMAIN teams
        THEN /\ TeamCall(call @@ [ret |-> TeamNotFound])
             /\ UNCHANGED teams
        ELSE /\ teams' = [teams EXCEPT ![team_id] = Released(teams[team_id])]
             /\ TeamCall(call @@
                    [ret |-> [status |-> "success", team_id |-> team_id,
                              released_from |-> teams[team_id].assigned_to,
                              new_status |-> "available"]])

update_team_location(team_id, place) ==
    LET call == [op |-> "update_team_location", team_id |-> team_id,
                 pre |-> teams]
    IN  IF team_id \notin DOMAIN teams
        THEN /\ TeamCall(call @@ [ret |-> TeamNotFound])
             /\ UNCHANGED teams
        ELSE /\ teams' = [teams EXCEPT ![team_id].location = place]
             /\ TeamCall(call @@
                    [ret |-> [status |-> "success", team_id |-> team_id,
                              previous_location |-> teams[team_id].location,
                              new_location |-> place]])

\* the team dict a caller is handed
TeamView(ts, team_id) ==
    [team_id |-> team_id, status |-> ts[team_id].status,
     location |-> ts[team_id].location, assigned_to |-> ts[team_id].assigned_to,
     eta_minutes |-> ts[team_id].eta_minutes, equipment |-> Equipment[team_id]]

\* every team, whatever its status
EveryTeam(ts) == TeamOrder

\* [t for t in _teams.values() if t["status"] == "available"]
AvailableTeams(ts) == SelectSeq(TeamOrder, LAMBDA t : ts[t].status = "available")

AnyEquipment(team_id, required_equipment) == TRUE

\* all(eq in t.get("equipment", []) for eq in required_equipment)
Equipped(team_id, required_equipment) ==
    \A k \in DOMAIN required_equipment : required_equipment[k] \in Equipment[team_id]

\* list.sort(key = distance_km), stable
RECURSIVE InsertByDistance(_, _)
InsertByDistance(sorted, entry) ==
    IF sorted = <<>> THEN <<entry>>
    ELSE IF entry.distance_km < sorted[1].distance_km THEN <<entry>> \o sorted
    ELSE <<sorted[1]>> \o InsertByDistance(Tail(sorted), entry)

AsListed(list) == list

RECURSIVE SortByDistance(_)
SortByDistance(list) ==
    IF list = <<>> THEN <<>>
    ELSE InsertByDistance(SortByDistance(SubSeq(list, 1, Len(list) - 1)),
                          list[Len(list)])

\* teams_with_distance[1:3] if len(teams_with_distance) > 1 else []
Alternatives(list) ==
    IF Len(list) > 1 THEN SubSeq(list, 2, Min(3, Len(list))) ELSE <<>>

NearestTeam(ts, victim_location, required_equipment) ==
    LET available_teams == AvailableTeams(ts)
        equipped == SelectSeq(available_teams,
                              LAMBDA t : Equipped(t, required_equipment))
        teams_with_distance ==
            [k \in DOMAIN equipped |->
                [team |-> TeamView(ts, equipped[k]),
                 distance_km |-> distance_km(ts[equipped[k]].location, victim_location),
                 eta_minutes |-> estimate_eta(ts[equipped[k]].location, victim_location)]]
        sorted == SortByDistance(teams_with_distance)
    IN  IF available_teams = <<>>
        THEN [status |-> "error", message |-> "no teams available"]
        ELSE IF required_equipment # <<>> /\ equipped = <<>>
        THEN [status |-> "error", message |-> "no teams with required equipment"]
        ELSE [status |-> "success", nearest_team |-> sorted[1].team,
              distance_km |-> sorted[1].distance_km,
              eta_minutes |-> sorted[1].eta_minutes,
              alternatives |-> Alternatives(sorted)]

get_nearest_available_team(victim_location, required_equipment) ==
    /\ TeamCall([op |-> "get_nearest_available_team",
                 victim_location |-> victim_location,
                 required_equipment |-> required_equipment, pre |-> teams,
                 ret |-> NearestTeam(teams, victim_location, required_equipment)])
    /\ UNCHANGED teams

\* SpecTeams: MaxTeamCalls calls of the team tools, recorded in `last`
InitTeamCalls ==
    /\ InitLedger
    /\ recording = TRUE
    /\ InitRace
    /\ InitQueue
    /\ InitTeams

NextTeams ==
    \/ \E t \in TeamRequests, l \in {None, Some("site_1")} :
           assign_team_to_victim(t, "M-1", l)
    \/ \E t \in TeamRequests, st \in TeamStatuses : update_team_status(t, st)
    \/ \E t \in TeamRequests : release_team(t)
    \/ \E t \in TeamRequests, p \in Sites : update_team_location(t, p)
    \/ \E p \in Sites, r \in EquipmentNeeds : get_nearest_available_team(p, r)

SpecTeams == InitTeamCalls /\ [][NextTeams]_vars

\* SpecAssign: teams assigned to either case and given back.  Neither
\* assign_team_to_victim nor release_team awaits anything between its check
\* and its writes, so concurrent calls run one after the other.
InitAssign ==
    /\ InitLedger
    /\ recording = TRUE
    /\ InitRace
    /\ InitQueue
    /\ InitTeams

\* the teams two callers compete for
Contended == {"T-Alpha", "T-Bravo"}

NextAssign ==
    \/ \E t \in Contended, v \in Cases, l \in {None, Some("site_1")} :
           assign_team_to_victim(t, v, l)
    \/ \E t \in Contended : release_team(t)
    \/ \E t \in Contended, st \in valid_statuses : update_team_status(t, st)

SpecAssign == InitAssign /\ [][NextAssign]_vars

\* SpecStatus: the status updates of cases and of teams as the tools take
\* them, one call after the other
InitStatus ==
    /\ InitLedger
    /\ recording = TRUE
    /\ InitRace
    /\ InitQueue
    /\ InitTeams

\* status values a caller passes to the update_victim_status tools
CaseStatuses == Statuses \cup {"rescued"}

NextStatus ==
    \/ \E t \in Sequential, v \in VictimIds : add_or_update_victim(t, v, SimulatedScore)
    \/ \E t \in Sequential, a \in Agents, v \in VictimIds, st \in CaseStatuses :
           tool_update_victim_status(t, a, v, st)
    \/ \E t \in Sequential : load_artifact(t)
    \/ \E t \in Sequential : load_queue(t)
    \/ \E t \in Sequential : save_artifact(t)
    \/ \E t \in Sequential : save_queue(t)
    \/ \E t \in {"T-Alpha", "T-Unknown"}, st \in TeamStatuses :
           update_team_status(t, st)

SpecStatus == InitStatus /\ [][NextStatus]_vars

-----------------------------------------------------------------------------
(* Properties of the rescue teams *)

\* C13: assign_team_to_victim on a team that is not available returns an
\* error and leaves the team's status, assigned_to and eta_minutes as they
\* were; it succeeds only for an available team, which is then en_route and
\* assigned to the given case.
C13_AssignOnlyAvailable ==
    (last.op = "assign_team_to_victim" /\ last.team_id \in TeamIds) =>
        LET before == last.pre[last.team_id]
            after == teams[last.team_id]
        IN  /\ before.status # "available" =>
                /\ last.ret.status = "error"
                /\ after.status = before.status
                /\ after.assigned_to = before.assigned_to
                /\ after.eta_minutes = before.eta_minutes
            /\ last.ret.status = "success" =>
                /\ before.status = "available"
                /\ after.status = "en_route"
                /\ after.assigned_to = Some(last.victim_id)

\* a team that is en_route for a case was asked for again and refused
C13_BusyTeamRefused ==
    /\ last.op = "assign_team_to_victim"
    /\ last.team_id \in TeamIds
    /\ last.pre[last.team_id].status = "en_route"
    /\ last.pre[last.team_id].assigned_to # None
    /\ last.ret.status = "error"
    /\ teams = last.pre

\* C14: in every state the team tools reach, a team has an assignment
\* exactly when its status is not available.
C14_AssignedIffNotAvailable ==
    \A t \in TeamIds :
        (teams[t].assigned_to # None) <=> (teams[t].status # "available")

\* the teams a request is about: available, and holding every required item
Eligible(ts, required) ==
    {t \in TeamIds :
        /\ ts[t].status = "available"
        /\ \A k \in DOMAIN required : required[k] \in Equipment[t]}

\* C15: get_nearest_available_team returns a team only if the team is
\* available and its equipment holds every required name, and returns an
\* error exactly when no team is both.
C15_NearestIsEligible ==
    last.op = "get_nearest_available_team" =>
        /\ last.ret.status \in {"success", "error"}
        /\ last.ret.status = "success" =>
               last.ret.nearest_team.team_id
                   \in Eligible(last.pre, last.required_equipment)
        /\ last.ret.status = "error" <=>
               Eligible(last.pre, last.required_equipment) = {}

\* equipment was required, a team that holds it was busy, another was returned
C15_EquippedTeamFound ==
    /\ last.op = "get_nearest_available_team"
    /\ last.required_equipment = <<"stretcher", "first_aid_kit">>
    /\ last.pre["T-Alpha"].status # "available"
    /\ last.ret.status = "success"
    /\ last.ret.nearest_team.team_id = "T-Bravo"

\* distance of a team to the place of the request
DistanceOf(t) == distance_km(last.pre[t].location, last.victim_location)

C26_StatusSideEffects ==
    (last.op = "update_team_status" /\ last.ret.status = "success") =>
        LET before == last.pre[last.team_id]
            after == teams[last.team_id]
        IN  /\ after.status = last.new_status
            /\ after.location = before.location
            /\ \A t \in TeamIds \ {last.team_id} : teams[t] = last.pre[t]
            /\ last.new_status = "available" =>
                   /\ after.assigned_to = None
                   /\ after.eta_minutes = None
            /\ last.new_status = "on_scene" =>
                   /\ after.eta_minutes = Some(0)
                   /\ after.assigned_to = before.assigned_to
            /\ last.new_status \in {"en_route", "returning"} =>
                   /\ after.assigned_to = before.assigned_to
                   /\ after.eta_minutes = before.eta_minutes

\* a team on its way with an ETA arrived on the scene
C26_ArrivedOnScene ==
    /\ last.op = "update_team_status"
    /\ last.ret.status = "success"
    /\ last.new_status = "on_scene"
    /\ last.pre[last.team_id].assigned_to # None
    /\ last.pre[last.team_id].eta_minutes \notin {None, Some(0)}
    /\ teams[last.team_id].eta_minutes = Some(0)

\* C27: a status outside the allowed values is rejected with an error and
\* changes nothing: the update_victim_status tools leave the queue and its
\* stored copy as they were and save nothing, so no entry ever holds such a
\* status; update_team_status leaves every team as it was.
C27_InvalidStatusRejected ==
    /\ \A k \in DOMAIN queue_cache : queue_cache[k].status \in Statuses
    /\ \A k \in DOMAIN Persisted : Persisted[k].status \in Statuses
    /\ \A t \in Tasks :
           tasks[t].pc # "idle" /\ tasks[t].call.op = "update_victim_status"
               => tasks[t].call.status \in Statuses
    /\ event.kind = "rejected" =>
           /\ event.status \notin Statuses
           /\ event.ret.status = "error"
           /\ queue_cache = event.before
           /\ storage = event.stored
    /\ (last.op = "update_team_status"
        /\ last.new_status \notin {"available", "en_route", "on_scene", "returning"})
           => /\ last.ret.status = "error"
              /\ teams = last.pre

\* both kinds of update were refused: a case in the queue was to be marked
\* with an unknown status, and so was a known team
C27_BothRefused ==
    /\ event.kind = "rejected"
    /\ \E k \in DOMAIN queue_cache : queue_cache[k].victim_id = event.victim_id
    /\ storage.exists
    /\ last.op = "update_team_status"
    /\ last.team_id \in TeamIds
    /\ last.new_status = "off_duty"
    /\ last.ret.status = "error"

\* C28: updating the status of a victim id that is not in the queue is
\* answered with a failure by the update_victim_status tool of either agent,
\* and nothing is saved.
C28_UnknownVictimFails ==
    (/\ event.kind = "return"
     /\ event.op = "update_victim_status"
     /\ ~event.ret.success)
    => /\ event.tool_status = "error"
       /\ event.resource_tool_status = "error"
       /\ ~event.save_attempted
       /\ \A k \in DOMAIN queue_cache : queue_cache[k].victim_id # event.victim_id

\* minutes to cover a distance, given in hundredths of a kilometre, at
\* 40 km/h, rounded up, at least 1
MinutesRoundedUp(distance) ==
    LET minutes == (3 * distance + 199) \div 200
    IN  IF minutes < 1 THEN 1 ELSE minutes

\* C30: the ETA that assign_team_to_victim and get_nearest_available_team
\* return for a distance is the travel time at 40 km/h rounded up to a whole
\* minute, and at least 1 minute.
C30_EtaRoundedUp ==
    /\ (last.op = "get_nearest_available_team" /\ last.ret.status = "success")
           => last.ret.eta_minutes = MinutesRoundedUp(last.ret.distance_km)
    /\ (/\ last.op = "assign_team_to_victim"
        /\ last.ret.status = "success"
        /\ last.victim_location # None)
           => last.ret.eta_minutes
                  = Some(MinutesRoundedUp(distance_km(last.ret.team_location,
                                                      last.victim_location[1])))

\* victim ids of a list of entries
IdsOf(list) == {list[k].victim_id : k \in DOMAIN list}

\* C31: once every concurrent add_or_update_victim call has returned, every
\* submitted victim id is in the in-memory queue and in the persisted queue.
C31_NoAcceptedCaseLost ==
    (\A t \in Tasks : tasks[t].pc = "idle")
    => \A k \in DOMAIN arrivals :
           /\ arrivals[k] \in IdsOf(queue_cache)
           /\ arrivals[k] \in IdsOf(Persisted)

\* C33: a team is never assigned to two cases at once: an
\* assign_team_to_victim call succeeds only on a team that is available and
\* has no case, it leaves the team en route to its case, and a team becomes
\* available again only through release_team or update_team_status, so that
\* at most one assignment succeeds between two releases.
C33_OneCasePerTeam ==
    [][\A t \in TeamIds :
         /\ (teams'[t].assigned_to # None
             /\ teams'[t].assigned_to # teams[t].assigned_to)
                => /\ last'.op = "assign_team_to_victim"
                   /\ last'.team_id = t
                   /\ teams'[t].assigned_to = Some(last'.victim_id)
         /\ (/\ team_calls' # team_calls
             /\ last'.op = "assign_team_to_victim"
             /\ last'.team_id = t
             /\ last'.ret.status = "success")
                => /\ teams[t].status = "available"
                   /\ teams[t].assigned_to = None
                   /\ teams'[t].status = "en_route"
                   /\ teams'[t].assigned_to = Some(last'.victim_id)
         /\ (teams[t].status # "available" /\ teams'[t].status = "available")
                => /\ last'.op \in {"release_team", "update_team_status"}
                   /\ last'.team_id = t]_vars

\* a team on its way to one case was asked for the other and refused
C33_SecondCaseRefused ==
    /\ last.op = "assign_team_to_victim"
    /\ last.team_id \in TeamIds
    /\ last.ret.status = "error"
    /\ last.pre[last.team_id].assigned_to # None
    /\ last.pre[last.team_id].assigned_to # Some(last.victim_id)
    /\ teams[last.team_id].assigned_to = last.pre[last.team_id].assigned_to

\* C36: get_nearest_available_team changes no team: status, assigned_to,
\* eta_minutes and location of every team are as before the call, and the
\* team it returns is available afterwards.
C36_NearestIsReadOnly ==
    last.op = "get_nearest_available_team" =>
        /\ teams = last.pre
        /\ last.ret.status = "success" =>
               /\ teams[last.ret.nearest_team.team_id].status = "available"
               /\ teams[last.ret.nearest_team.team_id].assigned_to = None
               /\ last.ret.nearest_team
                      = TeamView(teams, last.ret.nearest_team.team_id)

\* the nearest team was returned while another team was on a case
C36_NearestStillAvailable ==
    /\ last.op = "get_nearest_available_team"
    /\ last.ret.status = "success"
    /\ teams[last.ret.nearest_team.team_id].status = "available"
    /\ \E t \in TeamIds : teams[t].assigned_to # None

\* positions of the entries a status filter lets through
Matching(queue, status_filter) ==
    {k \in DOMAIN queue :
        status_filter \in {"None", "all"} \/ queue[k].status = status_filter}

\* the j-th of a set of positions, in queue order
Nth(positions, j) ==
    CHOOSE k \in positions : Cardinality({m \in positions : m <= k}) = j

Others(queue, victim_id) == DOMAIN queue \ IndexesOf(queue, victim_id)

C39_ReleaseAlwaysFrees ==
    (last.op = "release_team" /\ last.team_id \in TeamIds) =>
        /\ last.ret.status = "success"
        /\ last.ret.released_from = last.pre[last.team_id].assigned_to
        /\ teams[last.team_id].status = "available"
        /\ teams[last.team_id].assigned_to = None
        /\ teams[last.team_id].eta_minutes = None
        /\ teams[last.team_id].location = last.pre[last.team_id].location
        /\ \A t \in TeamIds \ {last.team_id} : teams[t] = last.pre[t]
        /\ (/\ last.pre[last.team_id].status = "available"
            /\ last.pre[last.team_id].assigned_to = None
            /\ last.pre[last.team_id].eta_minutes = None)
               => teams = last.pre

\* a team on scene without a case was released while another team had one
C39_ReleasedFromScene ==
    /\ last.op = "release_team"
    /\ last.team_id \in TeamIds
    /\ last.pre[last.team_id].status = "on_scene"
    /\ last.pre[last.team_id].assigned_to = None
    /\ teams[last.team_id].status = "available"
    /\ \E t \in TeamIds \ {last.team_id} : teams[t].assigned_to # None

-----------------------------------------------------------------------------
(* Dispatch of a case: the allocator and the team tools called for it *)

\* SpecDispatch: the calls a dispatcher of case M-1 makes, in any order
InitDispatch ==
    /\ InitLedger
    /\ recording = TRUE
    /\ InitRace
    /\ InitQueue
    /\ InitTeams

\* the teams the dispatcher turns to
Dispatched == {"T-Alpha", "T-Bravo"}

NextDispatch ==
    \/ \E l \in EquipmentLists :
           /\ AutoWithin("None", MaxAutoTeams)
           /\ allocate_resources("M-1", l, "None")
    \/ release_resources("M-1")
    \/ \E t \in Dispatched, c \in Cases : assign_team_to_victim(t, c, None)
    \/ \E t \in Dispatched : release_team(t)

SpecDispatch == InitDispatch /\ [][NextDispatch]_vars

\* units the allocation record of a case holds
HeldFor(c) ==
    IF c \in DOMAIN active_allocations
    THEN {k \in DOMAIN active_allocations[c].equipment_assigned :
              active_allocations[c].equipment_assigned[k].quantity > 0}
    ELSE {}

\* C17: once the team assignment of a case has failed and the case has no
\* team, no reservation made for the case by allocate_resources is still held.
C17_FailedAssignmentReleases ==
    (/\ last.op = "assign_team_to_victim"
     /\ last.ret.status = "error"
     /\ \A t \in TeamIds : teams[t].assigned_to # Some(last.victim_id)) =>
        HeldFor(last.victim_id) = {}

====
